---- MODULE Spec2Model ----
(***************************************************************************)
(* A model of the orchestration layer of roar_data_pipeline:               *)
(*   utils/loggers.py    Loggers, DatabaseLogger, ConsoleLogger            *)
(*   modules/downloader.py   YoutubeDownloader (__init__, get_video_ids,   *)
(*                           download_audio, start_download, __call__)     *)
(*   modules/music_separator.py   MusicSeparator (__init__,                *)
(*                           separate_audio, separate_all)                 *)
(* multiprocessing.Pool is modelled by its documented behaviour:           *)
(* Pool(processes=n) raises ValueError for n < 1 and otherwise owns n      *)
(* worker processes that take queued tasks first-in first-out, one task    *)
(* per worker at a time; AsyncResult.get() blocks until the task has ended *)
(* and re-raises the task's exception; leaving the with-block calls        *)
(* terminate(), which stops the workers without finishing outstanding      *)
(* work.  The transfer of a submitted task to its worker (the pickling of   *)
(* the bound method, and with it of the stage and its logger) is taken to  *)
(* succeed: a job that is started runs download_audio on the stage's       *)
(* logger and writes to the same store as the parent.                      *)
(***************************************************************************)
EXTENDS Integers, Sequences, FiniteSets, TLC

VARIABLES
    \* ---- utils/loggers.py
    logger,                 \* the logger object handed to the stage / driven directly
    tables,                 \* the SQLite store: per ctx, whether {ctx}_logs exists and its rows
    TABLE_EXISTS,           \* DatabaseLogger.TABLE_EXISTS (class attribute, a list)
    connection,             \* DatabaseLogger.connection: "open" | "closed"
    console,                \* lines emitted by ConsoleLogger, oldest first
    txn,                    \* the connection's open transaction: writes executed, not yet committed
    \* ---- a second DatabaseLogger object of the same process
    logger2,                \* [db, connection, txn]: its database file and its connection
    tables2,                \* the SQLite store of the file "b.db" (tables is the one of "a.db")
    \* ---- history of direct calls on the logger object
    lastCall, replaced, nCalls,
    \* ---- modules/downloader.py
    cfg,                    \* the stage's configuration: [channel_ids, channels_file]
    channel_ids,            \* YoutubeDownloader.channel_ids
    num_workers,            \* YoutubeDownloader.num_workers / MusicSeparator.num_workers
    channel_to_video_map,   \* insertion-ordered dict: sequence of [channel_id, video_ids]
    pc,                     \* where the stage's driver is
    processes,              \* start_download's list of submitted tasks (AsyncResults)
    tstate,                 \* per submitted task: its state in the pool
    getIdx,                 \* index of the AsyncResult start_download waits on next
    result,                 \* what start_download handed back to its caller
    closeCalls,             \* number of logger.close() calls made by the stage in this run
    run,                    \* 1 for the first invocation of the program, 2 for the re-invocation
    executed,               \* (channel_id, video_id) whose job a worker started in this run
    completeAfterRun1,      \* (channel_id, video_id) recorded complete when run 1 ended
    \* ---- modules/music_separator.py
    files,                  \* the regular files on disk, each a path (sequence of components)
    audio_filepaths         \* MusicSeparator.audio_filepaths

loggerVars == <<logger, tables, TABLE_EXISTS, connection, console, txn>>
instVars   == <<logger2, tables2>>
callVars   == <<lastCall, replaced, nCalls>>
cfgVars    == <<cfg, channel_ids>>
sepVars    == <<files, audio_filepaths>>
stageVars  == <<cfgVars, num_workers, channel_to_video_map, pc, processes, tstate,
                getIdx, result, closeCalls, run, executed, completeAfterRun1,
                sepVars>>
\* what the downloader stage never touches
otherVars  == <<callVars, instVars, sepVars>>
vars       == <<loggerVars, instVars, callVars, stageVars>>

----------------------------------------------------------------------------
(* Bounds of the model *)

\* direct calls made on a logger object in one behaviour of LedgerSpec
MaxLog == 3
\* largest configured num_workers
MaxWorkers == 2
\* invocations of the program on one store
MaxRuns == 2

----------------------------------------------------------------------------
(* Values *)

Channels == {"chA", "chB"}
VideoIds == {"vid1", "vid2", "vid3"}
\* type(self).__name__ of the stages
Ctxs == {"YoutubeDownloader", "MusicSeparator"}

Range(s) == {s[i] : i \in 1..Len(s)}

\* the exceptions the model distinguishes; NoError is a normal return
NoError == "NoError"

\* Python's None
None == "None"

----------------------------------------------------------------------------
(* utils/loggers.py : DatabaseLogger *)

\* Python bool bound to an INTEGER column: False -> 0, True -> 1
StatusInt(status) == IF status THEN 1 ELSE 0

Row(status, channel_id, video_id) ==
    [Status |-> StatusInt(status), Channel_ID |-> channel_id, Video_ID |-> video_id]

EmptyTables == [ctx \in Ctxs |-> [exists |-> FALSE, rows |-> {}]]

\* a plain INSERT into a table without a usable key: the new row is added
InsertNoReplace(rows, row) == rows \cup {row}

\* INSERT OR REPLACE with Video_ID the PRIMARY KEY: every row that conflicts on
\* Video_ID is deleted, then the new row is inserted
InsertOrReplace(rows, row) ==
    {r \in rows : r.Video_ID # row.Video_ID} \cup {row}

\* cursor.execute(INSERT OR REPLACE ...): the write joins the connection's
\* open transaction
execute(st, ctx, row) == [st EXCEPT !.txn = Append(@, [ctx |-> ctx, row |-> row])]

\* the stored tables after the writes of a transaction, oldest first
RECURSIVE ApplyWrites(_, _, _)
ApplyWrites(tbls, writes, i) ==
    IF i > Len(writes) THEN tbls
    ELSE ApplyWrites([tbls EXCEPT ![writes[i].ctx].rows =
                                     InsertOrReplace(@, writes[i].row)],
                     writes, i + 1)

\* a commit that leaves the transaction open and stores nothing
commitNothing(st) == st

\* connection.commit(): the writes of the open transaction become the stored
\* rows
commit(st) == [st EXCEPT !.tables = ApplyWrites(st.tables, st.txn, 1), !.txn = <<>>]

\* DatabaseLogger.create_table: CREATE TABLE IF NOT EXISTS keeps an existing
\* table's rows; commit; ctx is appended to the class-level list
create_table(st, ctx) ==
    [commit([st EXCEPT !.tables[ctx].exists = TRUE])
        EXCEPT !.TABLE_EXISTS = Append(@, ctx)]

\* DatabaseLogger.log(status, channel_id, video_id, ctx).  fault: the store
\* refuses the write (sqlite3.OperationalError from execute).  An INSERT into
\* a table the store does not have is refused too ("no such table").
\* Returns the new state and the exception raised.
DatabaseLogger_log(st, status, channel_id, video_id, ctx, fault) ==
    IF st.connection # "open"
    THEN [st |-> st, raised |-> "ProgrammingError"]
    ELSE LET s1 == IF ctx \notin Range(st.TABLE_EXISTS)
                   THEN create_table(st, ctx) ELSE st
         IN  IF ~s1.tables[ctx].exists
             THEN [st |-> s1, raised |-> "OperationalError: no such table"]
             ELSE IF fault
             THEN [st |-> s1, raised |-> "OperationalError"]
             ELSE [st |-> commit(execute(s1, ctx, Row(status, channel_id, video_id))),
                   raised |-> NoError]

\* DatabaseLogger.close: connection.close() drops what was not committed
DatabaseLogger_close(st) == [st EXCEPT !.connection = "closed", !.txn = <<>>]

----------------------------------------------------------------------------
(* utils/loggers.py : ConsoleLogger *)

\* ConsoleLogger.log(status, channel_id, video_id): one line per call
ConsoleLogger_log(st, status, channel_id, video_id) ==
    [st |-> [st EXCEPT !.console = Append(@, <<status, channel_id, video_id>>)],
     raised |-> NoError]

\* ConsoleLogger.close: logging.shutdown() flushes the handlers; nothing the
\* model keeps changes
ConsoleLogger_close(st) == st

----------------------------------------------------------------------------
(* Method calls.  args is the tuple of positional arguments of logger.log:  *)
(* <<status, channel_id, video_id>> or <<status, channel_id, video_id, ctx>> *)

\* positional parameters (after self) of each class's log method
LogArity(cls) ==
    CASE cls = "DatabaseLogger" -> 4
      [] cls = "ConsoleLogger"  -> 3
      [] cls = "Loggers"        -> 3

\* sink.log(*args) on a single sink of class cls; a call whose argument count
\* differs from the signature raises TypeError before the body runs
Sink_log(cls, st, args, fault) ==
    IF Len(args) # LogArity(cls)
    THEN [st |-> st, raised |-> "TypeError"]
    ELSE IF cls = "DatabaseLogger"
         THEN DatabaseLogger_log(st, args[1], args[2], args[3], args[4], fault)
         ELSE ConsoleLogger_log(st, args[1], args[2], args[3])

\* Loggers.log(status, channel_id, video_id): for logger in self.loggers:
\* logger.log(status, channel_id, video_id).  i is the index of the next sink;
\* the first exception leaves the loop.  delivered lists the indices of the
\* sinks whose log returned.
RECURSIVE Loggers_log(_, _, _, _, _, _)
Loggers_log(loggers, i, st, args, fault, delivered) ==
    IF i > Len(loggers)
    THEN [st |-> st, raised |-> NoError, delivered |-> delivered]
    ELSE LET r == Sink_log(loggers[i], st, <<args[1], args[2], args[3]>>, fault)
         IN  IF r.raised # NoError
             THEN [st |-> r.st, raised |-> r.raised, delivered |-> delivered]
             ELSE Loggers_log(loggers, i + 1, r.st, args, fault, Append(delivered, i))

\* self.logger.log(*args) for a logger object lg = [cls, loggers]
Log(lg, st, args, fault) ==
    IF lg.cls = "Loggers"
    THEN IF Len(args) # LogArity("Loggers")
         THEN [st |-> st, raised |-> "TypeError", delivered |-> <<>>]
         ELSE Loggers_log(lg.loggers, 1, st, args, fault, <<>>)
    ELSE LET r == Sink_log(lg.cls, st, args, fault)
         IN  [st |-> r.st, raised |-> r.raised,
              delivered |-> IF r.raised = NoError THEN <<1>> ELSE <<>>]

\* Loggers.close: for logger in self.loggers: logger.close()
RECURSIVE Loggers_close(_, _, _)
Loggers_close(loggers, i, st) ==
    IF i > Len(loggers) THEN st
    ELSE Loggers_close(loggers, i + 1,
                       IF loggers[i] = "DatabaseLogger"
                       THEN DatabaseLogger_close(st) ELSE ConsoleLogger_close(st))

\* self.logger.close()
Close(lg, st) ==
    IF lg.cls = "Loggers" THEN Loggers_close(lg.loggers, 1, st)
    ELSE IF lg.cls = "DatabaseLogger" THEN DatabaseLogger_close(st)
    ELSE ConsoleLogger_close(st)

\* the sinks of a logger object, in the order configured
SinksOf(lg) == IF lg.cls = "Loggers" THEN lg.loggers ELSE <<lg.cls>>

\* the logger state as one record, and its write-back
LoggerState ==
    [tables |-> tables, TABLE_EXISTS |-> TABLE_EXISTS,
     connection |-> connection, console |-> console, txn |-> txn]

SetLoggerState(st) ==
    /\ tables' = st.tables
    /\ TABLE_EXISTS' = st.TABLE_EXISTS
    /\ connection' = st.connection
    /\ console' = st.console
    /\ txn' = st.txn

----------------------------------------------------------------------------
(* The logger objects a configuration can instantiate (examples/runner.py   *)
(* instantiates cfg.logger; Loggers.__init__ instantiates each entry)       *)

LoggerConfigs ==
    {[cls |-> "DatabaseLogger", loggers |-> <<>>],
     [cls |-> "ConsoleLogger",  loggers |-> <<>>],
     [cls |-> "Loggers", loggers |-> <<"DatabaseLogger", "ConsoleLogger">>],
     [cls |-> "Loggers", loggers |-> <<"ConsoleLogger", "DatabaseLogger">>]}

\* the argument tuples a caller passes to logger.log (two video ids are enough
\* to tell a key from another one)
CallVideoIds == {"vid1", "vid2"}
Args3 == {<<s, c, v>> : s \in BOOLEAN, c \in Channels, v \in CallVideoIds}
Args4 == {<<a[1], a[2], a[3], ctx>> : a \in Args3, ctx \in Ctxs}

NoCall == [op |-> "none", args |-> <<>>, raised |-> NoError, delivered |-> <<>>]

\* the state of the second logger object when there is none
InstIdle ==
    /\ logger2 = [db |-> "a.db", connection |-> "closed", txn |-> <<>>]
    /\ tables2 = EmptyTables

\* the state of the separation stage when there is none
SepIdle ==
    /\ files = {}
    /\ audio_filepaths = <<>>

\* state of the stage before a stage object exists
StageIdle ==
    /\ cfg = [channel_ids |-> <<>>, channels_file |-> None]
    /\ channel_ids = <<>>
    /\ SepIdle
    /\ num_workers = 0
    /\ channel_to_video_map = <<>>
    /\ pc = "idle"
    /\ processes = <<>>
    /\ tstate = <<>>
    /\ getIdx = 1
    /\ result = "NotCalled"
    /\ closeCalls = 0
    /\ run = 1
    /\ executed = {}
    /\ completeAfterRun1 = {}

----------------------------------------------------------------------------
(* LedgerSpec: a caller drives one logger object directly *)

LedgerInit ==
    /\ logger \in LoggerConfigs
    /\ tables = EmptyTables
    /\ TABLE_EXISTS = <<>>
    /\ connection = "open"
    /\ console = <<>>
    /\ txn = <<>>
    /\ InstIdle
    /\ lastCall = NoCall
    /\ replaced = FALSE
    /\ nCalls = 0
    /\ StageIdle

\* whether the store holds a row of the key of args with another status
HoldsOtherStatus(args) ==
    /\ Len(args) = 4
    /\ \E r \in tables[args[4]].rows :
          /\ r.Channel_ID = args[2]
          /\ r.Video_ID = args[3]
          /\ r.Status # StatusInt(args[1])

\* logger.log(*args)
CallLog(args, fault) ==
    /\ nCalls < MaxLog
    /\ LET r == Log(logger, LoggerState, args, fault)
       IN  /\ SetLoggerState(r.st)
           /\ lastCall' = [op |-> "log", args |-> args, raised |-> r.raised,
                           delivered |-> r.delivered]
           /\ replaced' = (r.raised = NoError /\ HoldsOtherStatus(args))
    /\ nCalls' = nCalls + 1
    /\ UNCHANGED <<logger, instVars, stageVars>>

\* logger.close().  fault: the durable sink's connection.close() raises
\* (sqlite3.Error) and the call ends there
CallClose(fault) ==
    /\ nCalls < MaxLog
    /\ fault => logger.cls = "DatabaseLogger" /\ connection = "open"
    /\ IF fault
       THEN UNCHANGED <<tables, TABLE_EXISTS, connection, console, txn>>
       ELSE SetLoggerState(Close(logger, LoggerState))
    /\ lastCall' = [op |-> "close", args |-> <<>>,
                    raised |-> IF fault THEN "Error" ELSE NoError,
                    delivered |-> <<>>]
    /\ replaced' = FALSE
    /\ nCalls' = nCalls + 1
    /\ UNCHANGED <<logger, instVars, stageVars>>

\* the program is started again on the same store: a new process, so the
\* class attribute is the empty list again, and DatabaseLogger.__init__
\* connects anew
Reopen ==
    /\ nCalls < MaxLog
    /\ lastCall.op # "none"
    /\ TABLE_EXISTS' = <<>>
    /\ connection' = "open"
    /\ txn' = <<>>
    /\ lastCall' = NoCall
    /\ replaced' = FALSE
    /\ nCalls' = nCalls + 1
    /\ UNCHANGED <<logger, tables, console, instVars, stageVars>>

LedgerNext ==
    \/ \E args \in Args3 \cup Args4, fault \in BOOLEAN : CallLog(args, fault)
    \/ \E fault \in BOOLEAN : CallClose(fault)
    \/ Reopen

LedgerSpec == LedgerInit /\ [][LedgerNext]_vars

----------------------------------------------------------------------------
(* InstSpec: one process holds two DatabaseLogger objects.  Object 1 is on  *)
(* the file "a.db" (tables, connection, txn); object 2 is on logger2.db,    *)
(* which is the same file or "b.db" (tables2).  TABLE_EXISTS is an attribute *)
(* of the class: both objects read and append to the same list.             *)

DbFiles == {"a.db", "b.db"}

\* the arguments of the log calls made on the two objects
InstArgs == {a \in Args4 : a[2] = "chA" /\ a[3] = "vid1"}

InstInit ==
    /\ logger = [cls |-> "DatabaseLogger", loggers |-> <<>>]
    /\ tables = EmptyTables
    /\ TABLE_EXISTS = <<>>
    /\ connection = "open"
    /\ console = <<>>
    /\ txn = <<>>
    /\ logger2 \in {[db |-> d, connection |-> "open", txn |-> <<>>] : d \in DbFiles}
    /\ tables2 = EmptyTables
    /\ lastCall = NoCall
    /\ replaced = FALSE
    /\ nCalls = 0
    /\ StageIdle

\* the logger state object k works on
InstState(k) ==
    IF k = 1 THEN LoggerState
    ELSE [tables |-> IF logger2.db = "a.db" THEN tables ELSE tables2,
          TABLE_EXISTS |-> TABLE_EXISTS,
          connection |-> logger2.connection,
          console |-> console,
          txn |-> logger2.txn]

SetInstState(k, st) ==
    IF k = 1
    THEN SetLoggerState(st) /\ UNCHANGED instVars
    ELSE /\ TABLE_EXISTS' = st.TABLE_EXISTS
         /\ console' = st.console
         /\ logger2' = [logger2 EXCEPT !.connection = st.connection, !.txn = st.txn]
         /\ IF logger2.db = "a.db"
            THEN tables' = st.tables /\ UNCHANGED tables2
            ELSE tables2' = st.tables /\ UNCHANGED tables
         /\ UNCHANGED <<connection, txn>>

\* object k: log(*args)
InstLog(k, args, fault) ==
    /\ nCalls < MaxLog
    /\ LET r == Sink_log("DatabaseLogger", InstState(k), args, fault)
       IN  /\ SetInstState(k, r.st)
           /\ lastCall' = [op |-> "log", args |-> args, raised |-> r.raised,
                           delivered |-> IF r.raised = NoError THEN <<k>> ELSE <<>>]
    /\ replaced' = FALSE
    /\ nCalls' = nCalls + 1
    /\ UNCHANGED <<logger, stageVars>>

\* object k: close()
InstClose(k) ==
    /\ nCalls < MaxLog
    /\ SetInstState(k, DatabaseLogger_close(InstState(k)))
    /\ lastCall' = [op |-> "close", args |-> <<>>, raised |-> NoError,
                    delivered |-> <<k>>]
    /\ replaced' = FALSE
    /\ nCalls' = nCalls + 1
    /\ UNCHANGED <<logger, stageVars>>

InstNext ==
    \/ \E k \in 1..2, args \in InstArgs, fault \in BOOLEAN : InstLog(k, args, fault)
    \/ \E k \in 1..2 : InstClose(k)

InstSpec == InstInit /\ [][InstNext]_vars

----------------------------------------------------------------------------
(* modules/downloader.py : YoutubeDownloader *)

\* what ytdl.extract_info lists for each channel (the ids of its entries)
ChannelEntries(channel_id) ==
    IF channel_id = "chA" THEN <<"vid1", "vid2">> ELSE <<"vid3">>

\* type(self).__name__
StageName == "YoutubeDownloader"

\* get_video_ids' loop: self.logger.log(False, channel_id, video_id, ctx) for
\* each listed id from index i on; the first exception leaves the loop.
\* faultAt is the index of the call the store refuses (0: none).
RECURSIVE LogIncomplete(_, _, _, _, _, _)
LogIncomplete(lg, st, channel_id, video_ids, i, faultAt) ==
    IF i > Len(video_ids)
    THEN [st |-> st, raised |-> NoError]
    ELSE LET r == Log(lg, st, <<FALSE, channel_id, video_ids[i], StageName>>,
                      i = faultAt)
         IN  IF r.raised # NoError
             THEN [st |-> r.st, raised |-> r.raised]
             ELSE LogIncomplete(lg, r.st, channel_id, video_ids, i + 1, faultAt)

\* channel_to_video_map[channel_id] = video_ids on an insertion-ordered dict
MapSet(m, channel_id, video_ids) ==
    IF \E k \in 1..Len(m) : m[k].channel_id = channel_id
    THEN [k \in 1..Len(m) |->
            IF m[k].channel_id = channel_id
            THEN [channel_id |-> channel_id, video_ids |-> video_ids] ELSE m[k]]
    ELSE Append(m, [channel_id |-> channel_id, video_ids |-> video_ids])

\* the (channel_id, video_id) pairs in the order start_download's two nested
\* loops visit them
RECURSIVE MapItems(_)
MapItems(m) ==
    IF m = <<>> THEN <<>>
    ELSE [k \in 1..Len(m[1].video_ids) |->
            [channel_id |-> m[1].channel_id, video_id |-> m[1].video_ids[k]]]
         \o MapItems(Tail(m))

\* tasks a worker process is executing
Active == {i \in 1..Len(tstate) : tstate[i] \in {"downloading", "postprocessing"}}

\* tasks that have ended by themselves
Ended == {i \in 1..Len(tstate) : tstate[i] \in {"succeeded", "failed"}}

\* every worker of the pool takes tasks whenever it is free
WorkerIdleAlways == TRUE

\* Pool(processes=num_workers): a worker process is free to take a task
WorkerIdle == Cardinality(Active) < num_workers

\* Pool.terminate(): workers are stopped; a task in a worker is killed and a
\* queued task is never started
Terminate(ts) ==
    [i \in 1..Len(ts) |->
        CASE ts[i] \in {"downloading", "postprocessing"} -> "killed"
          [] ts[i] = "queued" -> "never_started"
          [] OTHER -> ts[i]]

\* the configurations a stage is constructed from: channel_ids given or left
\* out (cfg.get's default []), channels_file left out (cfg.get's default
\* None), the empty string, or the name of a file
CfgChannelIds == {<<>>, <<"chA", "chB">>}
CfgChannelsFiles == {None, "", "channels.txt"}

\* map(str.strip, f.readlines()) of the channels file
ChannelsFileLines(channels_file) == <<"chB">>

\* Python truth value of cfg's channels_file
Truthy(channels_file) == channels_file \notin {None, ""}

\* YoutubeDownloader.__init__: the assertion, then the channels file's lines
\* are appended to channel_ids
YoutubeDownloader_init ==
    /\ pc = "new"
    /\ IF ~(cfg.channel_ids # <<>> \/ cfg.channels_file # "")
       THEN /\ pc' = "config_error"
            /\ UNCHANGED channel_ids
       ELSE /\ channel_ids' =
                  IF Truthy(cfg.channels_file)
                  THEN cfg.channel_ids \o ChannelsFileLines(cfg.channels_file)
                  ELSE cfg.channel_ids
            /\ pc' = "ready"
    /\ UNCHANGED <<loggerVars, otherVars, cfg, num_workers, channel_to_video_map,
                   processes, tstate, getIdx, result, closeCalls, run, executed,
                   completeAfterRun1>>

\* the caller asks for the video ids of a configured channel (each once)
GetVideoIds(channel_id, faultAt) ==
    /\ pc = "ready"
    /\ channel_id \in Range(channel_ids)
    /\ \A k \in 1..Len(channel_to_video_map) :
          channel_to_video_map[k].channel_id # channel_id
    /\ LET video_ids == ChannelEntries(channel_id)
           r == LogIncomplete(logger, LoggerState, channel_id, video_ids, 1, faultAt)
       IN  /\ SetLoggerState(r.st)
           /\ IF r.raised = NoError
              THEN /\ channel_to_video_map' =
                         MapSet(channel_to_video_map, channel_id, video_ids)
                   /\ pc' = pc
              ELSE /\ pc' = "raised"
                   /\ UNCHANGED channel_to_video_map
    /\ UNCHANGED <<logger, otherVars, cfgVars, num_workers, processes, tstate, getIdx,
                   result, closeCalls, run, executed, completeAfterRun1>>

\* start_download up to its first process.get(): Pool(processes=num_workers)
\* raises ValueError for fewer than one process, before the with-block is
\* entered; otherwise every item of the map is submitted with apply_async
StartDownload ==
    /\ pc = "ready"
    /\ IF num_workers < 1
       THEN /\ pc' = "raised"
            /\ result' = "ValueError"
            /\ UNCHANGED <<processes, tstate>>
       ELSE /\ processes' = MapItems(channel_to_video_map)
            /\ tstate' = [i \in 1..Len(MapItems(channel_to_video_map)) |-> "queued"]
            /\ pc' = "getting"
            /\ result' = "Running"
    /\ getIdx' = 1
    /\ UNCHANGED <<loggerVars, otherVars, cfgVars, num_workers, channel_to_video_map,
                   closeCalls, run, executed, completeAfterRun1>>

\* a free worker takes the oldest queued task and calls download_audio
JobStart(i) ==
    /\ pc = "getting"
    /\ i \in 1..Len(tstate)
    /\ tstate[i] = "queued"
    /\ \A j \in 1..(i - 1) : tstate[j] # "queued"
    /\ WorkerIdle
    /\ tstate' = [tstate EXCEPT ![i] = "downloading"]
    /\ executed' = executed \cup {<<processes[i].channel_id, processes[i].video_id>>}
    /\ UNCHANGED <<loggerVars, otherVars, cfgVars, num_workers, channel_to_video_map, pc,
                   processes, getIdx, result, closeCalls, run, completeAfterRun1>>

\* ydl.download raises before the transfer has finished
JobDownloadError(i) ==
    /\ pc = "getting"
    /\ i \in 1..Len(tstate)
    /\ tstate[i] = "downloading"
    /\ tstate' = [tstate EXCEPT ![i] = "failed"]
    /\ UNCHANGED <<loggerVars, otherVars, cfgVars, num_workers, channel_to_video_map, pc,
                   processes, getIdx, result, closeCalls, run, executed,
                   completeAfterRun1>>

\* the progress hook is called with status "finished": logger_hook logs the
\* item complete; an exception of the log call ends the job
JobFinishedHook(i, fault) ==
    /\ pc = "getting"
    /\ i \in 1..Len(tstate)
    /\ tstate[i] = "downloading"
    /\ LET r == Log(logger, LoggerState,
                    <<TRUE, processes[i].channel_id, processes[i].video_id, StageName>>,
                    fault)
       IN  /\ SetLoggerState(r.st)
           /\ tstate' = [tstate EXCEPT ![i] =
                            IF r.raised = NoError THEN "postprocessing" ELSE "failed"]
    /\ UNCHANGED <<logger, otherVars, cfgVars, num_workers, channel_to_video_map, pc,
                   processes, getIdx, result, closeCalls, run, executed,
                   completeAfterRun1>>

\* the FFmpegExtractAudio postprocessor ends; ok: without an error
JobPostprocess(i, ok) ==
    /\ pc = "getting"
    /\ i \in 1..Len(tstate)
    /\ tstate[i] = "postprocessing"
    /\ tstate' = [tstate EXCEPT ![i] = IF ok THEN "succeeded" ELSE "failed"]
    /\ UNCHANGED <<loggerVars, otherVars, cfgVars, num_workers, channel_to_video_map, pc,
                   processes, getIdx, result, closeCalls, run, executed,
                   completeAfterRun1>>

\* process.get() of the next AsyncResult returns once its task has ended; a
\* failed task's exception is re-raised, leaves the with-block (terminate) and
\* start_download, so that logger.close() is not reached
Get ==
    /\ pc = "getting"
    /\ getIdx <= Len(processes)
    /\ getIdx \in Ended
    /\ IF tstate[getIdx] = "succeeded"
       THEN /\ getIdx' = getIdx + 1
            /\ UNCHANGED <<pc, tstate, result>>
       ELSE /\ tstate' = Terminate(tstate)
            /\ pc' = "raised"
            /\ result' = "JobError"
            /\ UNCHANGED getIdx
    /\ UNCHANGED <<loggerVars, otherVars, cfgVars, num_workers, channel_to_video_map,
                   processes, closeCalls, run, executed, completeAfterRun1>>

\* a loop that waits for no task
AllGotAlways == TRUE

\* the loop `for process in processes: process.get()` has run to its end
AllGot == getIdx > Len(processes)

\* every get() has returned: the with-block is left (terminate), then
\* self.logger.close(), then start_download returns None
ExitAndClose ==
    /\ pc = "getting"
    /\ AllGot
    /\ tstate' = Terminate(tstate)
    /\ SetLoggerState(Close(logger, LoggerState))
    /\ closeCalls' = closeCalls + 1
    /\ pc' = "returned"
    /\ result' = "None"
    /\ UNCHANGED <<logger, otherVars, cfgVars, num_workers, channel_to_video_map,
                   processes, getIdx, run, executed, completeAfterRun1>>

\* the program is interrupted (the machine stops): nothing runs any more
Crash ==
    /\ pc \in {"ready", "getting"}
    /\ pc' = "crashed"
    /\ tstate' = Terminate(tstate)
    /\ UNCHANGED <<loggerVars, otherVars, cfgVars, num_workers, channel_to_video_map,
                   processes, getIdx, result, closeCalls, run, executed,
                   completeAfterRun1>>

\* the items the store records complete for this stage
RecordedComplete ==
    {<<r.Channel_ID, r.Video_ID>> : r \in {q \in tables[StageName].rows : q.Status = 1}}

\* the program is invoked again with the same configuration on the same
\* store: a new process (TABLE_EXISTS is [] again), a new logger object
\* (DatabaseLogger.__init__ connects) and a new stage object
\* (channel_to_video_map = {})
NextRun ==
    /\ pc \in {"returned", "raised", "crashed"}
    /\ run < MaxRuns
    /\ run' = run + 1
    /\ completeAfterRun1' = IF run = 1 THEN RecordedComplete ELSE completeAfterRun1
    /\ TABLE_EXISTS' = <<>>
    /\ connection' = "open"
    /\ txn' = <<>>
    /\ channel_ids' = <<>>
    /\ channel_to_video_map' = <<>>
    /\ processes' = <<>>
    /\ tstate' = <<>>
    /\ getIdx' = 1
    /\ result' = "NotCalled"
    /\ closeCalls' = 0
    /\ executed' = {}
    /\ pc' = "new"
    /\ UNCHANGED <<logger, tables, console, otherVars, cfg, num_workers>>

Init ==
    /\ logger \in LoggerConfigs
    /\ tables = EmptyTables
    /\ TABLE_EXISTS = <<>>
    /\ connection = "open"
    /\ console = <<>>
    /\ txn = <<>>
    /\ InstIdle
    /\ lastCall = NoCall
    /\ replaced = FALSE
    /\ nCalls = 0
    /\ cfg \in [channel_ids : CfgChannelIds, channels_file : CfgChannelsFiles]
    /\ channel_ids = <<>>
    /\ num_workers \in 0..MaxWorkers
    /\ channel_to_video_map = <<>>
    /\ pc = "new"
    /\ processes = <<>>
    /\ tstate = <<>>
    /\ getIdx = 1
    /\ result = "NotCalled"
    /\ closeCalls = 0
    /\ run = 1
    /\ executed = {}
    /\ completeAfterRun1 = {}
    /\ SepIdle

Next ==
    \/ YoutubeDownloader_init
    \/ \E c \in Channels :
          \E faultAt \in 0..Len(ChannelEntries(c)) : GetVideoIds(c, faultAt)
    \/ StartDownload
    \/ \E i \in 1..Len(tstate) : JobStart(i)
    \/ \E i \in 1..Len(tstate) : JobDownloadError(i)
    \/ \E i \in 1..Len(tstate), fault \in BOOLEAN : JobFinishedHook(i, fault)
    \/ \E i \in 1..Len(tstate), ok \in BOOLEAN : JobPostprocess(i, ok)
    \/ Get
    \/ ExitAndClose
    \/ Crash
    \/ NextRun

Spec == Init /\ [][Next]_vars

----------------------------------------------------------------------------
(* modules/music_separator.py : MusicSeparator.  A path is the sequence of  *)
(* its components; a path value is [kind, parts] with kind "str" or "Path". *)

\* cfg.save_dir of the downloader and cfg.in_path of the separator
InPath == "data"

\* the %(title)s of every video of the model
Title == "title"

\* video_id.replace('_', '-'): the video ids of the model have no underscore
ReplaceUnderscore(video_id) == video_id

\* download_audio's outtmpl, with the extension the FFmpegExtractAudio
\* postprocessor leaves: the file written for (channel_id, video_id)
OutFile(save_dir, channel_id, video_id) ==
    <<save_dir, channel_id, video_id,
      Title \o "_" \o ReplaceUnderscore(video_id) \o ".wav">>

\* PurePath.parent, PurePath.parents[1] and PurePath.name
Parent(parts) == IF Len(parts) > 1 THEN SubSeq(parts, 1, Len(parts) - 1) ELSE parts
Parents1(parts) == Parent(Parent(parts))
Name(parts) == parts[Len(parts)]

\* str(path): the components joined with "/"
RECURSIVE Str(_)
Str(parts) ==
    IF Len(parts) = 0 THEN ""
    ELSE IF Len(parts) = 1 THEN parts[1]
    ELSE Str(SubSeq(parts, 1, Len(parts) - 1)) \o "/" \o parts[Len(parts)]

\* glob(f"{in_path}/*/*/.wav"): the files two directories below in_path whose
\* name is exactly ".wav"
Matches(parts, in_path) ==
    /\ Len(parts) = 4
    /\ parts[1] = in_path
    /\ parts[4] = ".wav"

\* the sequences that list every element of S once (glob's order is the
\* directory order, which the program does not choose)
SeqsOf(S) == {q \in [1..Cardinality(S) -> S] : Range(q) = S}

\* the files the model puts on disk: what the downloader wrote for two
\* items, and a file named ".wav" in an item directory
DiskFiles ==
    {OutFile(InPath, "chA", "vid1"), OutFile(InPath, "chB", "vid3"),
     <<InPath, "chA", "vid1", ".wav">>}

\* MusicSeparator.separate_audio(audio_filepath) for the path value arg, on
\* the disk content fs.  demucsOk: demucs.separate.main returns.  Returns the
\* logger state, the exception raised, whether demucs ran to its end, and the
\* arguments of the log call made.
separate_audio(st, lg, fs, arg, demucsOk, fault) ==
    IF arg.parts \notin fs
    THEN [st |-> st, raised |-> "AssertionError", ran |-> FALSE, logged |-> <<>>]
    ELSE IF ~demucsOk
    THEN [st |-> st, raised |-> "DemucsError", ran |-> FALSE, logged |-> <<>>]
    ELSE IF arg.kind = "str"
    THEN [st |-> st, raised |-> "AttributeError", ran |-> TRUE, logged |-> <<>>]
    ELSE LET channel_id == Name(Parent(arg.parts))
             video_id == Name(Parents1(arg.parts))
             a == <<TRUE, channel_id, video_id, "MusicSeparator">>
             r == Log(lg, st, a, fault)
         IN  [st |-> r.st, raised |-> r.raised, ran |-> TRUE, logged |-> a]

\* MusicSeparator.__init__.  exists: the directory in_path exists
MusicSeparator_init(exists) ==
    /\ pc = "new"
    /\ files # {} => exists
    /\ IF ~exists
       THEN /\ pc' = "config_error"
            /\ UNCHANGED audio_filepaths
       ELSE /\ \E q \in SeqsOf({f \in files : Matches(f, InPath)}) :
                  audio_filepaths' = [i \in 1..Len(q) |-> [kind |-> "str", parts |-> q[i]]]
            /\ pc' = "ready"
    /\ UNCHANGED <<loggerVars, instVars, callVars, cfgVars, num_workers,
                   channel_to_video_map, processes, tstate, getIdx, result,
                   closeCalls, run, executed, completeAfterRun1, files>>

\* a client calls separator.separate_audio(arg) itself
SeparateAudioCall(arg, demucsOk, fault) ==
    /\ pc = "ready"
    /\ nCalls < MaxLog
    /\ LET r == separate_audio(LoggerState, logger, files, arg, demucsOk, fault)
       IN  /\ SetLoggerState(r.st)
           /\ lastCall' = [op |-> "separate_audio", args |-> <<arg>>,
                           raised |-> r.raised, delivered |-> r.logged]
           /\ executed' = IF r.ran THEN executed \cup {arg.parts} ELSE executed
    /\ replaced' = FALSE
    /\ nCalls' = nCalls + 1
    /\ UNCHANGED <<logger, instVars, cfgVars, num_workers, channel_to_video_map,
                   pc, processes, tstate, getIdx, result, closeCalls, run,
                   completeAfterRun1, sepVars>>

\* separate_all up to its first process.get(): Pool(processes=num_workers),
\* then apply_async(self.separate_audio, args=(path)) for every path: args
\* is the path string itself, not a tuple holding it
SeparateAll ==
    /\ pc = "ready"
    /\ IF num_workers < 1
       THEN /\ pc' = "raised"
            /\ result' = "ValueError"
            /\ UNCHANGED <<processes, tstate>>
       ELSE /\ processes' = [i \in 1..Len(audio_filepaths) |->
                                [args |-> Str(audio_filepaths[i].parts)]]
            /\ tstate' = [i \in 1..Len(audio_filepaths) |-> "queued"]
            /\ pc' = "getting"
            /\ result' = "Running"
    /\ getIdx' = 1
    /\ UNCHANGED <<loggerVars, otherVars, cfgVars, num_workers,
                   channel_to_video_map, closeCalls, run, executed,
                   completeAfterRun1>>

\* a free worker takes the oldest queued task and calls
\* self.separate_audio(*args): one positional argument per character of the
\* string, a TypeError unless the string has one character
SepJobCall(i, demucsOk, fault) ==
    /\ pc = "getting"
    /\ i \in 1..Len(tstate)
    /\ tstate[i] = "queued"
    /\ \A j \in 1..(i - 1) : tstate[j] # "queued"
    /\ WorkerIdle
    /\ IF Len(processes[i].args) # 1
       THEN /\ tstate' = [tstate EXCEPT ![i] = "failed"]
            /\ UNCHANGED <<loggerVars, executed>>
       ELSE LET arg == [kind |-> "str", parts |-> <<processes[i].args>>]
                r == separate_audio(LoggerState, logger, files, arg, demucsOk, fault)
            IN  /\ SetLoggerState(r.st)
                /\ UNCHANGED logger
                /\ tstate' = [tstate EXCEPT ![i] =
                                 IF r.raised = NoError THEN "succeeded" ELSE "failed"]
                /\ executed' = IF r.ran THEN executed \cup {arg.parts} ELSE executed
    /\ UNCHANGED <<instVars, callVars, cfgVars, num_workers, channel_to_video_map,
                   pc, processes, getIdx, result, closeCalls, run,
                   completeAfterRun1, sepVars>>

SepInit ==
    /\ logger \in LoggerConfigs
    /\ tables = EmptyTables
    /\ TABLE_EXISTS = <<>>
    /\ connection = "open"
    /\ console = <<>>
    /\ txn = <<>>
    /\ InstIdle
    /\ lastCall = NoCall
    /\ replaced = FALSE
    /\ nCalls = 0
    /\ cfg = [channel_ids |-> <<>>, channels_file |-> None]
    /\ channel_ids = <<>>
    /\ num_workers \in 0..MaxWorkers
    /\ channel_to_video_map = <<>>
    /\ pc = "new"
    /\ processes = <<>>
    /\ tstate = <<>>
    /\ getIdx = 1
    /\ result = "NotCalled"
    /\ closeCalls = 0
    /\ run = 1
    /\ executed = {}
    /\ completeAfterRun1 = {}
    /\ files \in SUBSET DiskFiles
    /\ audio_filepaths = <<>>

\* separate_all's get() loop and its exit are those of start_download
SepNext ==
    \/ \E exists \in BOOLEAN : MusicSeparator_init(exists)
    \/ \E f \in files, kind \in {"str", "Path"}, demucsOk \in BOOLEAN, fault \in BOOLEAN :
          SeparateAudioCall([kind |-> kind, parts |-> f], demucsOk, fault)
    \/ SeparateAll
    \/ \E i \in 1..Len(tstate), demucsOk \in BOOLEAN, fault \in BOOLEAN :
          SepJobCall(i, demucsOk, fault)
    \/ Get
    \/ ExitAndClose
    \/ Crash

SepSpec == SepInit /\ [][SepNext]_vars

----------------------------------------------------------------------------
(* Claims about the ledger, checked under LedgerSpec *)

\* the rows the store holds for the key (ctx, channel_id, video_id)
KeyRows(ctx, channel_id, video_id) ==
    {r \in tables[ctx].rows : r.Channel_ID = channel_id /\ r.Video_ID = video_id}

\* the last call was a log call of the durable sink that returned
DurableLogReturned ==
    /\ lastCall.op = "log"
    /\ lastCall.raised = NoError
    /\ logger.cls = "DatabaseLogger"

\* C7: at-most-once ledger row per key.  Whatever calls came before, once a
\* log call for (group_id, item_id, stage_name) has returned, the durable sink
\* holds exactly one row for that key and its status is the status of that
\* call; and the store never holds two rows for one key.
C7_OneRowPerKeyLastStatus ==
    /\ \A ctx \in Ctxs, c \in Channels, v \in VideoIds :
          Cardinality(KeyRows(ctx, c, v)) <= 1
    /\ DurableLogReturned =>
          LET a == lastCall.args
          IN  KeyRows(a[4], a[2], a[3]) = {Row(a[1], a[2], a[3])}

\* C7 witness: a log call returned that replaced the row the same key had
\* with another status (at least two calls for the key, with varying status)
C7_Witness ==
    /\ DurableLogReturned
    /\ replaced
    /\ nCalls >= 2

\* a ledger configured with one durable and one transient sink
TwoSinkLedger ==
    /\ logger.cls = "Loggers"
    /\ Range(logger.loggers) = {"DatabaseLogger", "ConsoleLogger"}

AllRows == UNION {tables[ctx].rows : ctx \in Ctxs}

\* C8: multi-sink fan-out.  One event logged through a ledger with a durable
\* and a transient sink: the call succeeds, the durable sink holds exactly one
\* record, the transient sink emitted exactly one line, and the sinks were
\* served in the order configured.
C8_FanOutOneRecordOneLine ==
    (TwoSinkLedger /\ nCalls = 1 /\ lastCall.op = "log") =>
        /\ lastCall.raised = NoError
        /\ Cardinality(AllRows) = 1
        /\ Len(console) = 1
        /\ lastCall.delivered = <<1, 2>>

\* C9: sink failure isolation.  When a sink fails during a log call of the
\* aggregate, every other configured sink still received the event (only the
\* failing one is missing from the sinks served) and the call reported the
\* failure.
C9_SinkFailureIsolated ==
    (/\ logger.cls = "Loggers"
     /\ lastCall.op = "log"
     /\ Len(lastCall.args) = LogArity("Loggers")
     /\ lastCall.raised # NoError) =>
        Len(lastCall.delivered) = Len(logger.loggers) - 1

----------------------------------------------------------------------------
(* Claims about the stage and its dispatch, checked under Spec *)

\* the dispatch call (start_download) has handed control back to its caller
DispatchEnded == result \in {"None", "ValueError", "JobError"}

\* C1: idempotent resume.  In the second run on the same ledger no job is
\* executed for an item that was recorded complete when the first run ended,
\* and once the second run has returned every enumerated item that was not
\* recorded complete has had its job executed.
C1_IdempotentResume ==
    run = 2 =>
        /\ executed \cap completeAfterRun1 = {}
        /\ result = "None" =>
              \A it \in Range(MapItems(channel_to_video_map)) :
                  <<it.channel_id, it.video_id>> \notin completeAfterRun1
                      => <<it.channel_id, it.video_id>> \in executed

\* C2: isolation under failure.  When the dispatch call has ended and exactly
\* one submitted job raised, every other job ran to completion and succeeded,
\* and every item whose job succeeded is recorded complete.
C2_IsolationUnderFailure ==
    (DispatchEnded /\ Cardinality({i \in 1..Len(tstate) : tstate[i] = "failed"}) = 1) =>
        \A i \in 1..Len(tstate) :
            /\ tstate[i] \in {"succeeded", "failed"}
            /\ tstate[i] = "succeeded" =>
                  <<processes[i].channel_id, processes[i].video_id>> \in RecordedComplete

\* C3: the dispatcher blocks until the batch drains.  When the dispatch call
\* hands control back, normally or with an error, no submitted job is still
\* queued or running and none was killed or left unstarted.
C3_BlocksUntilDrained ==
    DispatchEnded =>
        /\ Active = {}
        /\ \A i \in 1..Len(tstate) :
              tstate[i] \notin {"queued", "killed", "never_started"}

\* C4: one outcome per input item.  When a dispatch over submitted items has
\* ended, it has returned (not raised) a collection that holds the outcome of
\* every submitted item; the caller has seen each item's outcome once.
C4_OneOutcomePerItem ==
    (DispatchEnded /\ processes # <<>>) =>
        /\ result \notin {"ValueError", "JobError"}
        /\ result # "None"
        /\ getIdx = Len(processes) + 1

\* C5: concurrency bound.  With num_workers >= 1 the number of jobs active at
\* the same time never exceeds num_workers.
C5_ConcurrencyBound ==
    num_workers >= 1 => Cardinality(Active) <= num_workers

\* C5 witness: with num_workers >= 2 and more than one item, two jobs are
\* active at once (execution is parallel) while a further item waits
C5_Witness ==
    /\ num_workers >= 2
    /\ Cardinality(Active) >= 2
    /\ Len(processes) > Cardinality(Active)

\* C6: num_workers = 0 means unbounded concurrency.  A dispatch with
\* num_workers = 0 ends normally and has executed the job of every submitted
\* and every enumerated item.
C6_ZeroMeansUnbounded ==
    (num_workers = 0 /\ DispatchEnded) =>
        /\ result = "None"
        /\ \A it \in Range(MapItems(channel_to_video_map)) :
              <<it.channel_id, it.video_id>> \in executed

\* C10: the ledger is closed exactly once on every exit path.  When the
\* dispatch call of a pool that could be created has ended, whether all jobs
\* succeeded or some job failed, close() has been called exactly once and the
\* durable sink's connection is released.
C10_ClosedOnceOnEveryExit ==
    (DispatchEnded /\ num_workers >= 1) =>
        /\ closeCalls = 1
        /\ "DatabaseLogger" \in Range(SinksOf(logger)) => connection = "closed"

\* C12: configuration errors are fatal at construction.  A stage configured
\* with no channel ids and no channels file is never constructed: its
\* construction either has not run or has failed.
C12_EmptyConfigFailsAtConstruction ==
    (cfg.channel_ids = <<>> /\ cfg.channels_file = None) =>
        pc \in {"new", "config_error"}

\* C13: the run entry point performs the full orchestration.  When a driver
\* that called only the entry point (__call__, which is start_download) got a
\* normal return, the job of every video of every configured channel that was
\* not already recorded complete has been executed in this run, and the
\* ledger has been closed.
C13_EntryPointOrchestratesAll ==
    (result = "None" /\ channel_to_video_map = <<>>) =>
        /\ \A c \in Range(channel_ids) : \A v \in Range(ChannelEntries(c)) :
              \/ <<c, v>> \in executed
              \/ run > 1 /\ <<c, v>> \in completeAfterRun1
        /\ closeCalls = 1

\* C14: an item's status never moves backwards.  No step of the program, in
\* the same run or in a later run on the same store, takes an item that the
\* store records complete to a state where it is not recorded complete.
C14_StatusNeverMovesBack ==
    [][\A it \in RecordedComplete : it \in RecordedComplete']_vars

\* C17: an item is recorded complete only when its job succeeded.  In the
\* first run on a store, no item whose job ended in failure is recorded
\* complete.
C17_CompleteOnlyOnSuccess ==
    \A i \in 1..Len(tstate) :
        (run = 1 /\ tstate[i] = "failed") =>
            <<processes[i].channel_id, processes[i].video_id>> \notin RecordedComplete

\* C15: writes to different keys are independent.  A log call for the key
\* (ctx, channel_id, video_id) leaves the stored record of every other key
\* as it was, where a key is another one when it differs in the stage, in the
\* channel id or in the video id.
C15_DifferentKeysIndependent ==
    [][(nCalls' = nCalls + 1 /\ lastCall'.op = "log" /\ Len(lastCall'.args) = 4) =>
          \A ctx \in Ctxs : \A r \in tables[ctx].rows :
              (\/ ctx # lastCall'.args[4]
               \/ r.Channel_ID # lastCall'.args[2]
               \/ r.Video_ID # lastCall'.args[3]) => r \in tables'[ctx].rows]_vars

\* C19: logged records are durable independently of close.  When a log call
\* of the durable sink returns, its record is among the stored (committed)
\* rows; and no later step that is not a log call (close(), a close() that
\* fails, the end of the process without close() and a new start on the same
\* store) changes any stored row.
C19_LoggedRecordsDurable ==
    [][/\ (nCalls' = nCalls + 1 /\ DurableLogReturned') =>
             Row(lastCall'.args[1], lastCall'.args[2], lastCall'.args[3])
                 \in tables'[lastCall'.args[4]].rows
       /\ (nCalls' = nCalls + 1 /\ lastCall'.op # "log") =>
             \A ctx \in Ctxs : tables'[ctx].rows = tables[ctx].rows]_vars

\* C19 witness: one log call returned, then the process ended without
\* close() and the store was opened again: the record is there
C19_Witness ==
    /\ logger.cls = "DatabaseLogger"
    /\ nCalls = 2
    /\ lastCall.op = "none"
    /\ connection = "open"
    /\ AllRows # {}

\* C16: lazy creation of a stage's table is sound for every DatabaseLogger
\* object.  No log call of any object, on whatever file, reaches its INSERT
\* with the stage's table missing from that object's store: no call ends
\* with "no such table".
C16_TableCreatedBeforeWrite ==
    lastCall.op = "log" => lastCall.raised # "OperationalError: no such table"

\* C18: within a stage run the ledger is never written after it is closed.
\* Whenever close() has been called in a run, every dispatched job has ended
\* by itself (none is running, waiting, or was stopped), and from then on
\* until the run is over no job takes a step and neither the store nor the
\* console receives anything.
C18_NoWriteAfterClose ==
    [][/\ closeCalls' >= 1 =>
             \A i \in 1..Len(tstate') : tstate'[i] \in {"succeeded", "failed"}
       /\ (closeCalls >= 1 /\ run' = run) =>
             /\ tstate' = tstate
             /\ tables' = tables
             /\ console' = console]_vars

\* C18 witness: a run with at least two jobs that wrote to the store has
\* closed the ledger
C18_Witness ==
    /\ closeCalls = 1
    /\ connection = "closed"
    /\ Len(processes) >= 2
    /\ Cardinality(RecordedComplete) >= 2

\* C11: the identity derived from a path round-trips.  When separate_audio
\* has returned for the file the downloader wrote for (channel_id, video_id),
\* the record it logged is the one of (channel_id, video_id).
C11_PathIdentityRoundTrips ==
    \A c \in Channels, v \in VideoIds :
        (/\ lastCall.op = "separate_audio"
         /\ lastCall.raised = NoError
         /\ lastCall.args = <<[kind |-> "Path", parts |-> OutFile(InPath, c, v)]>>)
        => lastCall.delivered = <<TRUE, c, v, "MusicSeparator">>

====
